---- MODULE Spec2Model ----
(***************************************************************************)
(* BackboneBase of models_refactored/backbone.py: the image + LiDAR        *)
(* fusion backbone.  A tensor is abstracted to its shape, one scalar value *)
(* (the tensor is uniform: every element holds v) and its provenance, the  *)
(* sequence of modules that were applied to produce it.  The object built  *)
(* by __init__ is the variable self; forward runs in five steps, one per   *)
(* group of lines of the method, and its locals are variables.             *)
(***************************************************************************)
EXTENDS Integers, Sequences, FiniteSets, TLC

\* ---------------------------------------------------------------- bounds
MaxDim == 2
MaxWidth == 2

Dims == 1..MaxDim
Widths == 1..MaxWidth
Velocities == {0, 1}
Batches == {2}
\* spatial sizes of the image feature map the encode step may return
ImageSizes == {<<1, 1>>, <<2, 3>>}
\* values of the (uniform) image and LiDAR feature maps
FeatureVals == {<<1, 2>>}
\* weight and bias of the learned layers
Params == {[weight |-> 2, bias |-> 0], [weight |-> 1, bias |-> 1]}
\* bev_upsample_factor in halves: 2 is 1.0, 3 is 1.5, 4 is 2.0
ScaleFactorsX2 == {2, 3, 4}
Architectures == {"resnet34", "convnext_tiny"}
ConvNextNames == {"convnext_tiny"}

VARIABLES self, pc, error, image, lidar, velocity, velocity_alt, bev_points,
          img_points, encoder_args,
          image_features, lidar_features, image_features_grid,
          lidar_features_grid, image_features_pooled, lidar_features_pooled,
          fused_features, fused_features_alt, levels, ret, trace

locals == <<image, lidar, velocity, velocity_alt, bev_points, img_points,
            encoder_args,
            image_features, lidar_features, image_features_grid,
            lidar_features_grid, image_features_pooled, lidar_features_pooled,
            fused_features, fused_features_alt, levels, ret>>
vars == <<self, pc, error, locals, trace>>

\* ------------------------------------------------------- tensors, errors
None == [none |-> TRUE]
Raise(kind) == [err |-> kind]
IsErr(x) == "err" \in DOMAIN x
IsNone(x) == "none" \in DOMAIN x

Op(module, layer, kind) == [module |-> module, layer |-> layer, kind |-> kind]
Tensor(shape, v, prov) == [shape |-> shape, v |-> v, prov |-> prov, terms |-> <<>>]
Input(name, shape, v) == Tensor(shape, v, <<Op(name, "", "input")>>)
Via(x, op) == [x EXCEPT !.prov = Append(@, op)]

Max(a, b) == IF a >= b THEN a ELSE b

\* ------------------------------------------------------------- torch.nn
Identity == [kind |-> "Identity"]
ReLU == [kind |-> "ReLU"]
Conv2d(in_channels, out_channels, w, b) ==
    [kind |-> "Conv2d", in_channels |-> in_channels, out_channels |-> out_channels,
     weight |-> w, bias |-> b]
Linear(in_features, out_features, w, b) ==
    [kind |-> "Linear", in_features |-> in_features, out_features |-> out_features,
     weight |-> w, bias |-> b]
LayerNorm(normalized_shape, w, b) ==
    [kind |-> "LayerNorm", normalized_shape |-> normalized_shape,
     weight |-> w, bias |-> b]
AdaptiveAvgPool2d(oh, ow) == [kind |-> "AdaptiveAvgPool2d", output_size |-> <<oh, ow>>]
Flatten == [kind |-> "Flatten", start_dim |-> 1]
Upsample(scale_x2) == [kind |-> "Upsample", scale_x2 |-> scale_x2]
Sequential(layers) == [kind |-> "Sequential", layers |-> layers]

LayerIndex == <<"0", "1", "2">>

\* the product of the dimensions of shape from position i on
RECURSIVE Numel(_, _)
Numel(shape, i) == IF i > Len(shape) THEN 1 ELSE shape[i] * Numel(shape, i + 1)

\* the forward of each kind of layer; op names the layer within self
IdentityForward(m, op, x) == Via(x, op)

ReLUForward(m, op, x) == Via([x EXCEPT !.v = Max(@, 0)], op)

\* a 1x1 convolution: channels change, height and width do not
Conv2dForward(m, op, x) ==
    IF Len(x.shape) = 4 /\ x.shape[2] = m.in_channels
    THEN Via([x EXCEPT !.shape[2] = m.out_channels,
                       !.v = m.weight * m.in_channels * x.v + m.bias], op)
    ELSE Raise("RuntimeError")

\* mutant: the projection without its bias
LinearForward_no_bias(m, op, x) ==
    IF x.shape[Len(x.shape)] = m.in_features
    THEN Via([x EXCEPT !.shape[Len(x.shape)] = m.out_features,
                       !.v = m.weight * m.in_features * x.v], op)
    ELSE Raise("RuntimeError")

LinearForward(m, op, x) ==
    IF x.shape[Len(x.shape)] = m.in_features
    THEN Via([x EXCEPT !.shape[Len(x.shape)] = m.out_features,
                       !.v = m.weight * m.in_features * x.v + m.bias], op)
    ELSE Raise("RuntimeError")

\* x is uniform, so x - mean(x) is 0 and the result is the bias
LayerNormForward(m, op, x) ==
    IF x.shape[Len(x.shape)] = m.normalized_shape
    THEN Via([x EXCEPT !.v = m.weight * 0 + m.bias], op)
    ELSE Raise("RuntimeError")

\* mutant: the pooling leaves the spatial size as it is
AdaptiveAvgPool2dForward_keep_size(m, op, x) == Via(x, op)

\* the mean of a uniform map is its value
AdaptiveAvgPool2dForward(m, op, x) ==
    Via([x EXCEPT !.shape[3] = m.output_size[1], !.shape[4] = m.output_size[2]], op)

FlattenForward(m, op, x) ==
    Via([x EXCEPT !.shape = SubSeq(x.shape, 1, m.start_dim)
                             \o <<Numel(x.shape, m.start_dim + 1)>>], op)

\* bilinear: the output size is floor(input size * scale_factor), and the
\* interpolation of a uniform map is uniform
UpsampleForward(m, op, x) ==
    LET h == (x.shape[3] * m.scale_x2) \div 2
        w == (x.shape[4] * m.scale_x2) \div 2
    IN  IF h > 0 /\ w > 0
        THEN Via([x EXCEPT !.shape[3] = h, !.shape[4] = w], op)
        ELSE Raise("RuntimeError")

Leaf(m, op, x) ==
    CASE m.kind = "Identity" -> IdentityForward(m, op, x)
      [] m.kind = "ReLU" -> ReLUForward(m, op, x)
      [] m.kind = "Conv2d" -> Conv2dForward(m, op, x)
      [] m.kind = "Linear" -> LinearForward(m, op, x)
      [] m.kind = "LayerNorm" -> LayerNormForward(m, op, x)
      [] m.kind = "AdaptiveAvgPool2d" -> AdaptiveAvgPool2dForward(m, op, x)
      [] m.kind = "Flatten" -> FlattenForward(m, op, x)
      [] m.kind = "Upsample" -> UpsampleForward(m, op, x)

RECURSIVE Layers(_, _, _, _)
Layers(layers, name, i, x) ==
    IF i > Len(layers) \/ IsErr(x) THEN x
    ELSE Layers(layers, name, i + 1,
                Leaf(layers[i], Op(name, LayerIndex[i], layers[i].kind), x))

\* m(x) for the submodule of self called name
Call(m, name, x) ==
    IF IsErr(x) THEN x
    ELSE IF m.kind = "Sequential" THEN Layers(m.layers, name, 1, x)
    ELSE Leaf(m, Op(name, "", m.kind), x)

\* x + y: the shapes broadcast, or the addition raises
Broadcastable(s, t) ==
    /\ Len(s) = Len(t)
    /\ \A i \in 1..Len(s) : s[i] = t[i] \/ s[i] = 1 \/ t[i] = 1
BroadcastShape(s, t) == [i \in 1..Len(s) |-> Max(s[i], t[i])]

Terms(x) == IF x.terms = <<>> THEN <<x.prov>> ELSE x.terms

Add(x, y) ==
    IF IsErr(x) THEN x
    ELSE IF IsErr(y) THEN y
    ELSE IF Broadcastable(x.shape, y.shape)
    THEN [shape |-> BroadcastShape(x.shape, y.shape), v |-> x.v + y.v,
          prov |-> <<>>, terms |-> Terms(x) \o Terms(y)]
    ELSE Raise("RuntimeError")

\* ------------------------------------------------------------- __init__
StartsWithConvnext(architecture) == architecture \in ConvNextNames

make_global_pool(config, architecture, w, b) ==
    Sequential(<<AdaptiveAvgPool2d(1, 1),
                 Flatten,
                 IF StartsWithConvnext(architecture)
                 THEN LayerNorm(config.perception_output_features, w, b)
                 ELSE Identity>>)

ImageEncoder(architecture, num_features) ==
    [architecture |-> architecture, normalize |-> TRUE, num_features |-> num_features]
LidarEncoder(architecture, num_features) ==
    [architecture |-> architecture, num_features |-> num_features]

change_channel_conv(config, out_feature_dim, w, b) ==
    IF out_feature_dim = config.perception_output_features
    THEN Identity
    ELSE Conv2d(out_feature_dim, config.perception_output_features, w, b)

BackboneBase(config, image_architecture, lidar_architecture, use_velocity, image_width, lidar_width, encoder_impl, w, b) ==
    LET image_encoder == ImageEncoder(image_architecture, image_width)
        out_feature_dim == image_encoder.num_features
        channel == config.bev_features_chanels
    IN  [config |-> config,
         image_architecture |-> image_architecture,
         lidar_architecture |-> lidar_architecture,
         use_velocity |-> use_velocity,
         use_velocity_final |-> use_velocity,
         vel_emb |-> IF use_velocity
                     THEN Linear(1, config.perception_output_features, w, b)
                     ELSE Identity,
         image_global_pool |-> make_global_pool(config, image_architecture, w, b),
         lidar_global_pool |-> make_global_pool(config, lidar_architecture, w, b),
         image_encoder |-> image_encoder,
         lidar_encoder |-> LidarEncoder(lidar_architecture, lidar_width),
         change_channel_conv_image |-> change_channel_conv(config, out_feature_dim, w, b),
         change_channel_conv_lidar |-> change_channel_conv(config, out_feature_dim, w, b),
         relu |-> ReLU,
         c5_conv |-> Conv2d(config.perception_output_features, channel, w, b),
         upsample |-> Upsample(config.bev_upsample_factor_x2),
         up_conv5 |-> Conv2d(channel, channel, w, b),
         up_conv4 |-> Conv2d(channel, channel, w, b),
         up_conv3 |-> Conv2d(channel, channel, w, b),
         encoder |-> encoder_impl]

Configs ==
    [perception_output_features : Widths,
     bev_features_chanels : Widths,
     bev_upsample_factor_x2 : ScaleFactorsX2]

EncoderImpls == {"BackboneBase.encoder", "subclass.encoder"}

\* -------------------------------------------------------------- methods
normalize_imagenet(x) == Via(x, Op("normalize_imagenet", "", "function"))

process_image(this, x) ==
    IF this.image_encoder.normalize THEN normalize_imagenet(x) ELSE x

process_lidar(this, x) == x

\* mutant: raise NotImplemented, which is a TypeError
encoder_raises_type_error == Raise("TypeError")

\* BackboneBase.encoder
encoder == Raise("NotImplementedError")

\* an override of encoder in a subclass: a pair of feature maps, each of its
\* encoder's width, of the sizes and values the step happens to produce
subclass_encoder(this, img, ldr, image_size, lidar_size, vals) ==
    <<Via(Tensor(<<img.shape[1], this.image_encoder.num_features,
                   image_size[1], image_size[2]>>, vals[1], img.prov),
          Op("encoder", "", "image_features")),
      Via(Tensor(<<ldr.shape[1], this.lidar_encoder.num_features,
                   lidar_size[1], lidar_size[2]>>, vals[2], ldr.prov),
          Op("encoder", "", "lidar_features"))>>

\* mutant: the last stage without its upsample
top_down_levels_two_upsamples(this, x) ==
    LET p5 == Call(this.relu, "relu", Call(this.c5_conv, "c5_conv", x))
        p4 == Call(this.relu, "relu",
                   Call(this.up_conv5, "up_conv5", Call(this.upsample, "upsample", p5)))
        p3 == Call(this.relu, "relu",
                   Call(this.up_conv4, "up_conv4", Call(this.upsample, "upsample", p4)))
        p2 == Call(this.relu, "relu", Call(this.up_conv3, "up_conv3", p3))
    IN  [p5 |-> p5, p4 |-> p4, p3 |-> p3, p2 |-> p2]

top_down_levels(this, x) ==
    LET p5 == Call(this.relu, "relu", Call(this.c5_conv, "c5_conv", x))
        p4 == Call(this.relu, "relu",
                   Call(this.up_conv5, "up_conv5", Call(this.upsample, "upsample", p5)))
        p3 == Call(this.relu, "relu",
                   Call(this.up_conv4, "up_conv4", Call(this.upsample, "upsample", p4)))
        p2 == Call(this.relu, "relu",
                   Call(this.up_conv3, "up_conv3", Call(this.upsample, "upsample", p3)))
    IN  [p5 |-> p5, p4 |-> p4, p3 |-> p3, p2 |-> p2]

top_down(this, x) == top_down_levels(this, x).p2

\* forward, lines 92 and 93
normalize_image(this, x) ==
    Call(this.change_channel_conv_image, "change_channel_conv_image", x)
normalize_lidar(this, x) ==
    Call(this.change_channel_conv_lidar, "change_channel_conv_lidar", x)

\* mutant: the LiDAR map pooled by the LiDAR branch's pooler
pool_lidar_own(this, grid) == Call(this.lidar_global_pool, "lidar_global_pool", grid)

\* forward, lines 95 and 96
pool_image(this, grid) == Call(this.image_global_pool, "image_global_pool", grid)
pool_lidar(this, grid) == Call(this.image_global_pool, "image_global_pool", grid)

\* mutant: the velocity embedding added whatever use_velocity_final is
fuse_always_velocity(this, pooled_image, pooled_lidar, vel) ==
    LET fused == Add(pooled_image, pooled_lidar)
    IN  IF IsErr(fused) THEN fused
        ELSE Add(fused, Call(this.vel_emb, "vel_emb", vel))

\* forward, lines 99 to 103
fuse(this, pooled_image, pooled_lidar, vel) ==
    LET fused == Add(pooled_image, pooled_lidar)
    IN  IF IsErr(fused) THEN fused
        ELSE IF this.use_velocity_final
        THEN Add(fused, Call(this.vel_emb, "vel_emb", vel))
        ELSE fused

\* mutant: the two maps in the other order
forward_return_swapped(decoded, grid, fused) == <<grid, decoded, fused>>

\* forward, line 105
forward_return(decoded, grid, fused) == <<decoded, grid, fused>>

Val(x) == IF IsErr(x) THEN None ELSE x

\* ----------------------------------------------------------------- Init
Init ==
    /\ \E config \in Configs, image_architecture \in Architectures,
          lidar_architecture \in Architectures, use_velocity \in BOOLEAN,
          image_width \in Widths, lidar_width \in Widths,
          encoder_impl \in EncoderImpls, p \in Params :
          self = BackboneBase(config, image_architecture, lidar_architecture,
                              use_velocity, image_width, lidar_width,
                              encoder_impl, p.weight, p.bias)
    /\ pc = "idle"
    /\ error = "none"
    /\ trace = <<>>
    /\ image = None /\ lidar = None /\ velocity = None /\ velocity_alt = None
    /\ bev_points = None /\ img_points = None /\ encoder_args = None
    /\ image_features = None /\ lidar_features = None
    /\ image_features_grid = None /\ lidar_features_grid = None
    /\ image_features_pooled = None /\ lidar_features_pooled = None
    /\ fused_features = None /\ fused_features_alt = None
    /\ levels = None /\ ret = None

\* -------------------------------------------------------------- forward
\* a call of forward: lines 87 and 88.  velocity_alt is the velocity of a
\* second call whose other arguments and encoded features are the same
Forward_Preprocess(b, vel, vel_alt) ==
    /\ pc \in {"idle", "done", "error"}
    /\ vel_alt # vel
    /\ image' = process_image(self, Input("image", <<b>>, 0))
    /\ lidar' = process_lidar(self, Input("lidar", <<b>>, 0))
    /\ velocity' = Input("velocity", <<b, 1>>, vel)
    /\ velocity_alt' = Input("velocity", <<b, 1>>, vel_alt)
    /\ bev_points' = Input("bev_points", <<b>>, 0)
    /\ img_points' = Input("img_points", <<b>>, 0)
    /\ encoder_args' = None
    /\ image_features' = None /\ lidar_features' = None
    /\ image_features_grid' = None /\ lidar_features_grid' = None
    /\ image_features_pooled' = None /\ lidar_features_pooled' = None
    /\ fused_features' = None /\ fused_features_alt' = None
    /\ levels' = None /\ ret' = None
    /\ error' = "none"
    /\ trace' = <<"preprocess">>
    /\ pc' = "preprocessed"
    /\ UNCHANGED self

\* line 90
Forward_Encode(image_size, lidar_size, vals) ==
    /\ pc = "preprocessed"
    /\ trace' = Append(trace, "encode")
    /\ encoder_args' = <<image, lidar, velocity, bev_points, img_points>>
    /\ IF self.encoder = "BackboneBase.encoder"
       THEN /\ error' = encoder.err
            /\ pc' = "error"
            /\ UNCHANGED <<image_features, lidar_features>>
       ELSE LET features == subclass_encoder(self, image, lidar, image_size,
                                             lidar_size, vals)
            IN  /\ image_features' = features[1]
                /\ lidar_features' = features[2]
                /\ pc' = "encoded"
                /\ UNCHANGED error
    /\ UNCHANGED <<self, image, lidar, velocity, velocity_alt, bev_points,
                   img_points, image_features_grid, lidar_features_grid,
                   image_features_pooled, lidar_features_pooled,
                   fused_features, fused_features_alt, levels, ret>>

\* mutant: the LiDAR normalizer rebuilt during the call, for the width of the
\* map it is given
Forward_ChangeChannel_lazy ==
    /\ pc = "encoded"
    /\ trace' = Append(trace, "change_channel")
    /\ self' = [self EXCEPT !.change_channel_conv_lidar =
                   change_channel_conv(self.config, lidar_features.shape[2],
                                       self.c5_conv.weight, self.c5_conv.bias)]
    /\ LET image_grid == normalize_image(self', image_features)
           lidar_grid == IF IsErr(image_grid) THEN image_grid
                         ELSE normalize_lidar(self', lidar_features)
       IN  /\ image_features_grid' = Val(image_grid)
           /\ lidar_features_grid' = Val(lidar_grid)
           /\ IF IsErr(lidar_grid)
              THEN pc' = "error" /\ error' = lidar_grid.err
              ELSE pc' = "normalized" /\ UNCHANGED error
    /\ UNCHANGED <<image, lidar, velocity, velocity_alt, bev_points,
                   img_points, encoder_args, image_features, lidar_features,
                   image_features_pooled, lidar_features_pooled,
                   fused_features, fused_features_alt, levels, ret>>

\* lines 92 and 93
Forward_ChangeChannel ==
    /\ pc = "encoded"
    /\ trace' = Append(trace, "change_channel")
    /\ LET image_grid == normalize_image(self, image_features)
           lidar_grid == IF IsErr(image_grid) THEN image_grid
                         ELSE normalize_lidar(self, lidar_features)
       IN  /\ image_features_grid' = Val(image_grid)
           /\ lidar_features_grid' = Val(lidar_grid)
           /\ IF IsErr(lidar_grid)
              THEN pc' = "error" /\ error' = lidar_grid.err
              ELSE pc' = "normalized" /\ UNCHANGED error
    /\ UNCHANGED <<self, image, lidar, velocity, velocity_alt, bev_points,
                   img_points, encoder_args, image_features, lidar_features,
                   image_features_pooled, lidar_features_pooled,
                   fused_features, fused_features_alt, levels, ret>>

\* lines 95 to 103
Forward_PoolFuse ==
    /\ pc = "normalized"
    /\ trace' = Append(trace, "pool_fuse")
    /\ LET pooled_image == pool_image(self, image_features_grid)
           pooled_lidar == IF IsErr(pooled_image) THEN pooled_image
                           ELSE pool_lidar(self, lidar_features_grid)
           fused == fuse(self, pooled_image, pooled_lidar, velocity)
           fused_alt == fuse(self, pooled_image, pooled_lidar, velocity_alt)
       IN  /\ image_features_pooled' = Val(pooled_image)
           /\ lidar_features_pooled' = Val(pooled_lidar)
           /\ fused_features' = Val(fused)
           /\ fused_features_alt' = Val(fused_alt)
           /\ IF IsErr(fused)
              THEN pc' = "error" /\ error' = fused.err
              ELSE pc' = "fused" /\ UNCHANGED error
    /\ UNCHANGED <<self, image, lidar, velocity, velocity_alt, bev_points,
                   img_points, encoder_args, image_features, lidar_features,
                   image_features_grid, lidar_features_grid, levels, ret>>

\* line 105
Forward_TopDown ==
    /\ pc = "fused"
    /\ trace' = Append(trace, "top_down")
    /\ LET decoded == top_down(self, lidar_features_grid)
       IN  /\ levels' = top_down_levels(self, lidar_features_grid)
           /\ IF IsErr(decoded)
              THEN pc' = "error" /\ error' = decoded.err /\ UNCHANGED ret
              ELSE /\ pc' = "done"
                   /\ ret' = forward_return(decoded, image_features_grid,
                                            fused_features)
                   /\ UNCHANGED error
    /\ UNCHANGED <<self, image, lidar, velocity, velocity_alt, bev_points,
                   img_points, encoder_args, image_features, lidar_features,
                   image_features_grid, lidar_features_grid,
                   image_features_pooled, lidar_features_pooled,
                   fused_features, fused_features_alt>>

Next ==
    \/ \E b \in Batches, vel \in Velocities, vel_alt \in Velocities :
          Forward_Preprocess(b, vel, vel_alt)
    \/ \E image_size \in ImageSizes, lidar_size \in Dims \X Dims,
          vals \in FeatureVals :
          Forward_Encode(image_size, lidar_size, vals)
    \/ Forward_ChangeChannel
    \/ Forward_PoolFuse
    \/ Forward_TopDown

Spec == Init /\ [][Next]_vars


\* ------------------------------------------------------ claim vocabulary
Modules(prov) == [i \in 1..Len(prov) |-> prov[i].module]
Kinds(prov) == [i \in 1..Len(prov) |-> prov[i].kind]
AppliedKind(x, kind) == \E i \in 1..Len(x.prov) : x.prov[i].kind = kind
AppliedModule(prov, module) == \E i \in 1..Len(prov) : prov[i].module = module
Count(seq, e) == Cardinality({i \in 1..Len(seq) : seq[i] = e})
Perception == self.config.perception_output_features
Bev == self.config.bev_features_chanels
Overridden == self.encoder = "subclass.encoder"
Pooled == ~IsNone(lidar_features_pooled)
Returned == pc = "done"

\* what the channel normalizer of a branch must be for an encoder of the
\* given output width
NormalizerFor(normalizer, width) ==
    IF width = Perception
    THEN normalizer.kind = "Identity"
    ELSE /\ normalizer.kind = "Conv2d"
         /\ normalizer.in_channels = width
         /\ normalizer.out_channels = Perception

SameSize(x, y) == x.shape[3] = y.shape[3] /\ x.shape[4] = y.shape[4]

\* C1: in each branch the channel normalizer is the identity iff that
\* branch's encoder has the perception width, and otherwise a 1x1 projection
\* from that encoder's width to the perception width that keeps the spatial
\* size of the map.
C1_NormalizerPerBranch ==
    /\ NormalizerFor(self.change_channel_conv_image, self.image_encoder.num_features)
    /\ NormalizerFor(self.change_channel_conv_lidar, self.lidar_encoder.num_features)
    /\ ~IsNone(image_features_grid) =>
          /\ image_features_grid.shape[2] = Perception
          /\ SameSize(image_features_grid, image_features)
    /\ ~IsNone(lidar_features_grid) =>
          /\ lidar_features_grid.shape[2] = Perception
          /\ SameSize(lidar_features_grid, lidar_features)

\* C2: with an integer upsample factor s, top_down maps a perception-width
\* map of size (H, W) to one of size (H*s^3, W*s^3) in three upsample
\* stages, each multiplying height and width by s, and P5, P4, P3 and the
\* returned P2 all have the BEV channel width.
C2_TopDownSize ==
    (Returned /\ self.upsample.scale_x2 % 2 = 0) =>
        LET s == self.upsample.scale_x2 \div 2
            x == lidar_features_grid
            SizeIs(p, k) == p.shape = <<x.shape[1], Bev, x.shape[3] * k, x.shape[4] * k>>
        IN  /\ x.shape[2] = Perception
            /\ SizeIs(levels.p5, 1)
            /\ SizeIs(levels.p4, s)
            /\ SizeIs(levels.p3, s * s)
            /\ SizeIs(levels.p2, s * s * s)
            /\ ret[1] = levels.p2
            /\ Count(Kinds(ret[1].prov), "Upsample") = 3

C2_Witness ==
    /\ Returned
    /\ self.upsample.scale_x2 = 4
    /\ Bev # Perception
    /\ lidar_features_grid.shape[3] = 1 /\ lidar_features_grid.shape[4] = 2
    /\ ret[1].shape[3] = 8 /\ ret[1].shape[4] = 16

\* C3: built with use_velocity=False, two forward calls that differ only in
\* the velocity argument (same encoder output) give the same fused embedding.
C3_VelocityIgnored ==
    (~self.use_velocity /\ pc \in {"fused", "done"}) =>
        /\ velocity.v # velocity_alt.v
        /\ fused_features_alt = fused_features

C3_Witness ==
    /\ ~self.use_velocity
    /\ Returned
    /\ velocity.v # velocity_alt.v
    /\ ret[3] = fused_features_alt

\* C4: built with use_velocity=True, the fused embedding is pooled image +
\* pooled LiDAR + (weight * velocity + bias) of vel_emb; at velocity 0 it is
\* the sum of the pooled embeddings plus the bias.
C4_VelocityAdded ==
    (self.use_velocity /\ pc \in {"fused", "done"}) =>
        /\ self.vel_emb.kind = "Linear"
        /\ fused_features.v = image_features_pooled.v + lidar_features_pooled.v
                              + (self.vel_emb.weight * velocity.v + self.vel_emb.bias)
        /\ fused_features_alt.v = image_features_pooled.v + lidar_features_pooled.v
                              + (self.vel_emb.weight * velocity_alt.v + self.vel_emb.bias)
        /\ fused_features.terms = <<image_features_pooled.prov,
                                    lidar_features_pooled.prov,
                                    Append(velocity.prov, Op("vel_emb", "", "Linear"))>>
        /\ velocity.v = 0 =>
              fused_features.v = image_features_pooled.v + lidar_features_pooled.v
                                 + self.vel_emb.bias

C4_Witness ==
    /\ self.use_velocity
    /\ Returned
    /\ velocity.v = 0
    /\ self.vel_emb.bias # 0
    /\ ret[3].v # image_features_pooled.v + lidar_features_pooled.v

\* C5: each modality is pooled by its own pooler: LayerNorm is applied to
\* the pooled image embedding iff image_architecture is ConvNeXt, and to the
\* pooled LiDAR embedding iff lidar_architecture is ConvNeXt.
C5_PoolerPerModality ==
    Pooled =>
        /\ AppliedKind(image_features_pooled, "LayerNorm") <=> StartsWithConvnext(self.image_architecture)
        /\ AppliedKind(lidar_features_pooled, "LayerNorm") <=> StartsWithConvnext(self.lidar_architecture)

C7_EncoderNotImplemented ==
    ~Overridden =>
        /\ pc \in {"idle", "preprocessed", "error"}
        /\ IsNone(ret) /\ IsNone(levels)
        /\ IsNone(image_features) /\ IsNone(lidar_features)
        /\ IsNone(image_features_grid) /\ IsNone(lidar_features_grid)
        /\ IsNone(image_features_pooled) /\ IsNone(lidar_features_pooled)
        /\ IsNone(fused_features)
        /\ pc = "error" =>
              /\ error = "NotImplementedError"
              /\ trace = <<"preprocess", "encode">>
              /\ AppliedModule(image.prov, "normalize_imagenet")
        /\ pc = "preprocessed" =>
              /\ trace = <<"preprocess">>
              /\ ENABLED Forward_Encode(<<1, 1>>, <<1, 1>>, <<1, 2>>)

C7_Witness ==
    /\ ~Overridden
    /\ pc = "error"
    /\ error = "NotImplementedError"

\* C8: a forward call that returns ran preprocess, encode, channel
\* normalization, pooling and fusion, top-down decode in that order and
\* returns (decoded LiDAR map, normalized image map, fused embedding): the
\* encode step got the preprocessed inputs, and pooling and the decoder read
\* the normalized maps.
C8_ForwardOrder ==
    Returned =>
        /\ trace = <<"preprocess", "encode", "change_channel", "pool_fuse", "top_down">>
        /\ Len(ret) = 3
        /\ encoder_args = <<image, lidar, velocity, bev_points, img_points>>
        /\ Modules(image.prov) = <<"image", "normalize_imagenet">>
        /\ Modules(lidar.prov) = <<"lidar">>
        /\ Modules(image_features_grid.prov)
              = Modules(image.prov) \o <<"encoder", "change_channel_conv_image">>
        /\ Modules(lidar_features_grid.prov)
              = Modules(lidar.prov) \o <<"encoder", "change_channel_conv_lidar">>
        /\ ret[2] = image_features_grid
        /\ Len(ret[2].shape) = 4
        /\ Modules(ret[1].prov)
              = Modules(lidar_features_grid.prov)
                \o <<"c5_conv", "relu", "upsample", "up_conv5", "relu",
                     "upsample", "up_conv4", "relu", "upsample", "up_conv3", "relu">>
        /\ ret[3] = fused_features
        /\ SubSeq(ret[3].terms[1], 1, 4) = image_features_grid.prov
        /\ SubSeq(ret[3].terms[2], 1, 3) = lidar_features_grid.prov
        /\ Kinds(SubSeq(ret[3].terms[1], 5, 6)) = <<"AdaptiveAvgPool2d", "Flatten">>
        /\ Kinds(SubSeq(ret[3].terms[2], 4, 5)) = <<"AdaptiveAvgPool2d", "Flatten">>

C8_Witness ==
    /\ Returned
    /\ self.change_channel_conv_image.kind = "Conv2d"
    /\ image_features.shape[2] # ret[2].shape[2]
    /\ self.use_velocity
    /\ Len(ret[3].terms) = 3

\* C9: forward pools both the image map and the LiDAR map with the image
\* branch's pooler; the LiDAR branch's pooler is applied to no tensor.
C9_SharedPooler ==
    /\ Pooled =>
          /\ AppliedModule(image_features_pooled.prov, "image_global_pool")
          /\ AppliedModule(lidar_features_pooled.prov, "image_global_pool")
          /\ Modules(SubSeq(lidar_features_pooled.prov, 4, 6))
                = <<"image_global_pool", "image_global_pool", "image_global_pool">>
          /\ lidar_features_pooled.prov[6].kind = self.image_global_pool.layers[3].kind
    /\ \A x \in {image_features_pooled, lidar_features_pooled} :
          ~IsNone(x) => ~AppliedModule(x.prov, "lidar_global_pool")
    /\ ~IsNone(fused_features) =>
          \A i \in 1..Len(fused_features.terms) :
             ~AppliedModule(fused_features.terms[i], "lidar_global_pool")

C9_Witness ==
    /\ Returned
    /\ StartsWithConvnext(self.image_architecture)
    /\ ~StartsWithConvnext(self.lidar_architecture)
    /\ self.lidar_global_pool # self.image_global_pool
    /\ AppliedKind(lidar_features_pooled, "LayerNorm")

\* C10: no step of forward, in a call that returns or in one that fails,
\* changes the module: configuration, parameters, the identity-or-learned
\* variant of each layer and the velocity flags stay as built.
C10_ModuleUnchanged == [][self' = self]_vars

C10_Witness ==
    /\ pc \in {"done", "error"}
    /\ Len(trace) >= 3
    /\ self.change_channel_conv_lidar.kind = "Conv2d"
    /\ self.use_velocity /\ self.use_velocity_final

====
